---- MODULE Spec2Model ----
(***************************************************************************)
(* Model of the movies/tasks tool adapter (src/mcp.py): the HTTP helper    *)
(* api_request, the renderer pretty, and the tools built on them.          *)
(* Texts are TLA+ strings, built exactly as the f-strings of the source    *)
(* build them.  JSON values are tagged records.                            *)
(***************************************************************************)
EXTENDS Integers, Sequences, FiniteSets, TLC

\* Number of tool calls the host may have in flight at once.
MaxCalls == 2

Calls == 1..MaxCalls

\* Python's None.
None == [t |-> "None"]

-----------------------------------------------------------------------------
\* Text helpers

StartsWith(s, p) == Len(s) >= Len(p) /\ SubSeq(s, 1, Len(p)) = p

Contains(s, p) ==
  \E i \in 1..(Len(s) - Len(p) + 1) : SubSeq(s, i, i + Len(p) - 1) = p

LowerAlpha == "abcdefghijklmnopqrstuvwxyz"

UpperAlpha == "ABCDEFGHIJKLMNOPQRSTUVWXYZ"

UpperChar(ch) ==
  IF \E i \in 1..Len(LowerAlpha) : SubSeq(LowerAlpha, i, i) = ch
  THEN LET i == CHOOSE k \in 1..Len(LowerAlpha) : SubSeq(LowerAlpha, k, k) = ch
       IN  SubSeq(UpperAlpha, i, i)
  ELSE ch

RECURSIVE Upper(_)
\* str.upper()
Upper(s) ==
  IF Len(s) = 0 THEN ""
  ELSE UpperChar(SubSeq(s, 1, 1)) \o Upper(SubSeq(s, 2, Len(s)))

-----------------------------------------------------------------------------
\* JSON values (what resp.json() yields and what json.dumps takes):
\*   null, booleans, integers, floats with one decimal digit (kept in
\*   tenths), strings, lists, objects (key/value pairs in insertion order).

JNull == None

JBool(b) == [t |-> "bool", b |-> b]

JInt(n) == [t |-> "int", n |-> n]

JFloat(tenths) == [t |-> "float", tenths |-> tenths]

JStr(s) == [t |-> "str", s |-> s]

JList(items) == [t |-> "list", items |-> items]

JObj(kv) == [t |-> "dict", kv |-> kv]

Keys(o) == {o.kv[i][1] : i \in 1..Len(o.kv)}

HasKey(o, k) == k \in Keys(o)

Get(o, k) == o.kv[CHOOSE i \in 1..Len(o.kv) : o.kv[i][1] = k][2]

IsDict(v) == v.t = "dict"

\* float.__repr__ for a value with one decimal digit: 8.0 -> "8.0"
FloatRepr(tenths) ==
  IF tenths < 0
  THEN "-" \o ToString((0 - tenths) \div 10) \o "." \o ToString((0 - tenths) % 10)
  ELSE ToString(tenths \div 10) \o "." \o ToString(tenths % 10)

EscapeChar(ch) ==
  CASE ch = "\"" -> "\\\""
    [] ch = "\\" -> "\\\\"
    [] ch = "\n" -> "\\n"
    [] OTHER -> ch

RECURSIVE Escape(_)
Escape(s) ==
  IF Len(s) = 0 THEN ""
  ELSE EscapeChar(SubSeq(s, 1, 1)) \o Escape(SubSeq(s, 2, Len(s)))

\* A JSON string literal (ensure_ascii=False: characters kept literally).
Quote(s) == "\"" \o Escape(s) \o "\""

RECURSIVE Spaces(_)
Spaces(n) == IF n <= 0 THEN "" ELSE " " \o Spaces(n - 1)

RECURSIVE dumps(_, _, _)
RECURSIVE dumpsItems(_, _, _, _)
RECURSIVE dumpsPairs(_, _, _, _)
\* json.dumps(v, indent=indent) at nesting depth `level`.
dumps(v, indent, level) ==
  CASE v.t = "None"  -> "null"
    [] v.t = "bool"  -> IF v.b THEN "true" ELSE "false"
    [] v.t = "int"   -> ToString(v.n)
    [] v.t = "float" -> FloatRepr(v.tenths)
    [] v.t = "str"   -> Quote(v.s)
    [] v.t = "list"  ->
         IF Len(v.items) = 0 THEN "[]"
         ELSE "[\n" \o dumpsItems(v.items, 1, indent, level + 1)
                \o "\n" \o Spaces(indent * level) \o "]"
    [] v.t = "dict"  ->
         IF Len(v.kv) = 0 THEN "{}"
         ELSE "{\n" \o dumpsPairs(v.kv, 1, indent, level + 1)
                \o "\n" \o Spaces(indent * level) \o "}"

dumpsItems(items, i, indent, level) ==
  Spaces(indent * level) \o dumps(items[i], indent, level)
    \o (IF i = Len(items) THEN ""
        ELSE ",\n" \o dumpsItems(items, i + 1, indent, level))

dumpsPairs(kv, i, indent, level) ==
  Spaces(indent * level) \o Quote(kv[i][1]) \o ": " \o dumps(kv[i][2], indent, level)
    \o (IF i = Len(kv) THEN ""
        ELSE ",\n" \o dumpsPairs(kv, i + 1, indent, level))

RECURSIVE compact(_)
RECURSIVE compactItems(_, _)
RECURSIVE compactPairs(_, _)
\* The one-line JSON text a backend writes for a value.
compact(v) ==
  CASE v.t = "None"  -> "null"
    [] v.t = "bool"  -> IF v.b THEN "true" ELSE "false"
    [] v.t = "int"   -> ToString(v.n)
    [] v.t = "float" -> FloatRepr(v.tenths)
    [] v.t = "str"   -> Quote(v.s)
    [] v.t = "list"  ->
         IF Len(v.items) = 0 THEN "[]" ELSE "[" \o compactItems(v.items, 1) \o "]"
    [] v.t = "dict"  ->
         IF Len(v.kv) = 0 THEN "{}" ELSE "{" \o compactPairs(v.kv, 1) \o "}"

compactItems(items, i) ==
  compact(items[i]) \o (IF i = Len(items) THEN "" ELSE "," \o compactItems(items, i + 1))

compactPairs(kv, i) ==
  Quote(kv[i][1]) \o ":" \o compact(kv[i][2])
    \o (IF i = Len(kv) THEN "" ELSE "," \o compactPairs(kv, i + 1))

JsonTags == {"None", "bool", "int", "float", "str", "list", "dict"}

\* pretty(data): json.dumps(data, indent=2, ensure_ascii=False), and str(data)
\* when json.dumps raises (a value that is not JSON-serializable).
pretty(data) ==
  IF data.t \in JsonTags THEN dumps(data, 2, 0) ELSE "<" \o data.t \o " object>"

-----------------------------------------------------------------------------
\* Module-level configuration

VARIABLES
  environ,  \* the process environment read at import: variable name -> value
  pc,       \* pc[c]: where call c stands
  tool,     \* tool[c]: name of the tool invoked
  args,     \* args[c]: its arguments
  client,   \* client[c]: the httpx.AsyncClient the call created (0: none)
  sent,     \* sent[c]: the network requests the call has issued, in order
  resp,     \* resp[c]: what came back from the network for the call
  ret,      \* ret[c]: what api_request is about to hand back
  result,   \* result[c]: the str the tool returned (None: nothing returned)
  open      \* the clients currently open

vars == <<environ, pc, tool, args, client, sent, resp, ret, result, open>>

DefaultBase == "https://basicrud95019501.onrender.com"

getenv(name, default) == IF environ[name] = None THEN default ELSE environ[name].s

MOVIE_API_BASE == getenv("MOVIE_API_BASE", DefaultBase)

TASK_API_BASE == getenv("TASK_API_BASE", DefaultBase)

JSON_HEADERS == [Accept |-> "application/json", ContentType |-> "application/json"]

DefaultTimeout == 30

-----------------------------------------------------------------------------
\* api_request: the pure parts

\* The JSON values the modelled backend can put in a response body.
Movie3 ==
  JObj(<< <<"id", JInt(3)>>, <<"title", JStr("Dune")>>,
          <<"year", JInt(2021)>>, <<"rating", JFloat(80)>> >>)

Task1 == JObj(<< <<"id", JInt(1)>>, <<"title", JStr("Write")>>, <<"done", JBool(FALSE)>> >>)

Detail == JObj(<< <<"detail", JStr("invalid year")>> >>)

JsonUniverse == {JNull, Movie3, Task1, Detail, JList(<<Movie3>>), JList(<<>>)}

\* resp.json(): the value whose JSON text the body is; raises on any other text.
IsJson(content) == \E v \in JsonUniverse : compact(v) = content

json_loads(content) == CHOOSE v \in JsonUniverse : compact(v) = content

\* Classification that looks at the body only, not at status 204.
ClassifyNo204(status_code, content) ==
  IF content = ""
  THEN [status |-> status_code, data |-> None]
  ELSE IF IsJson(content)
       THEN [status |-> status_code, data |-> json_loads(content)]
       ELSE [status |-> status_code, data |-> None]

\* Lines 42-49: the (status, body) pair for a response that arrived.
Classify(status_code, content) ==
  IF status_code = 204 \/ content = ""
  THEN [status |-> status_code, data |-> None]
  ELSE IF IsJson(content)
       THEN [status |-> status_code, data |-> json_loads(content)]
       ELSE [status |-> status_code, data |-> None]

\* The error payload without the attempted request body.
TransportFailureNoBody(e, url, method, json_body) ==
  [status |-> 0,
   data   |-> JObj(<< <<"error", JStr(e)>>, <<"url", JStr(url)>>,
                      <<"method", JStr(method)>> >>)]

\* Lines 50-52: the pair for an exception raised inside the try block.
TransportFailure(e, url, method, json_body) ==
  [status |-> 0,
   data   |-> JObj(<< <<"error", JStr(e)>>, <<"url", JStr(url)>>,
                      <<"method", JStr(method)>>, <<"body", json_body>> >>)]

-----------------------------------------------------------------------------
\* The movie tools.  For each tool, <tool>_request is the api_request call it
\* makes and <tool> is the text it returns for api_request's (status, data).

\* A request body that also carries an id key.
MovieBodyWithId(a) ==
  JObj(<< <<"id", JInt(0)>>, <<"title", JStr(a.title)>>, <<"year", JInt(a.year)>>,
          <<"rating", JFloat(a.rating)>> >>)

MovieBody(a) ==
  JObj(<< <<"title", JStr(a.title)>>, <<"year", JInt(a.year)>>,
          <<"rating", JFloat(a.rating)>> >>)

get_movies_request(a) ==
  [base |-> MOVIE_API_BASE, method |-> "GET", path |-> "/movies", json_body |-> None]

\* get_movies that takes only statuses below 300 for a success.
get_movies2xxOnly(a, status, data) ==
  IF status = 0 THEN "Transport error while calling /movies:\n" \o pretty(data)
  ELSE IF status >= 300
       THEN "Error " \o ToString(status) \o " from /movies:\n" \o pretty(data)
       ELSE pretty(data)

get_movies(a, status, data) ==
  IF status = 0 THEN "Transport error while calling /movies:\n" \o pretty(data)
  ELSE IF status >= 400
       THEN "Error " \o ToString(status) \o " from /movies:\n" \o pretty(data)
       ELSE pretty(data)

get_movie_request(a) ==
  [base |-> MOVIE_API_BASE, method |-> "GET",
   path |-> "/movies/" \o ToString(a.movie_id), json_body |-> None]

\* get_movie with the generic error rule tested before the 404 rule.
get_movieErrorFirst(a, status, data) ==
  IF status = 0
  THEN "Transport error while calling /movies/" \o ToString(a.movie_id) \o ":\n"
         \o pretty(data)
  ELSE IF status >= 400
       THEN "Error " \o ToString(status) \o " from /movies/" \o ToString(a.movie_id)
              \o ":\n" \o pretty(data)
  ELSE IF status = 404 THEN "Movie " \o ToString(a.movie_id) \o " not found."
       ELSE pretty(data)

get_movie(a, status, data) ==
  IF status = 0
  THEN "Transport error while calling /movies/" \o ToString(a.movie_id) \o ":\n"
         \o pretty(data)
  ELSE IF status = 404 THEN "Movie " \o ToString(a.movie_id) \o " not found."
  ELSE IF status >= 400
       THEN "Error " \o ToString(status) \o " from /movies/" \o ToString(a.movie_id)
              \o ":\n" \o pretty(data)
       ELSE pretty(data)

create_movie_request(a) ==
  [base |-> MOVIE_API_BASE, method |-> "POST", path |-> "/movies",
   json_body |-> MovieBody(a)]

create_movie(a, status, data) ==
  IF status = 0 THEN "Transport error while POST /movies:\n" \o pretty(data)
  ELSE IF status >= 400
       THEN "Error " \o ToString(status) \o " creating movie:\n" \o pretty(data)
       ELSE "Movie created:\n" \o pretty(data)

\* update_movie sending POST instead of PUT.
update_movie_requestPost(a) ==
  [base |-> MOVIE_API_BASE, method |-> "POST",
   path |-> "/movies/" \o ToString(a.movie_id), json_body |-> MovieBody(a)]

update_movie_request(a) ==
  [base |-> MOVIE_API_BASE, method |-> "PUT",
   path |-> "/movies/" \o ToString(a.movie_id), json_body |-> MovieBody(a)]

\* update_movie whose error text leaves the id out.
update_movieNoId(a, status, data) ==
  IF status = 0
  THEN "Transport error while PUT /movies/" \o ToString(a.movie_id) \o ":\n"
         \o pretty(data)
  ELSE IF status = 404 THEN "Movie " \o ToString(a.movie_id) \o " not found."
  ELSE IF status >= 400
       THEN "Error " \o ToString(status) \o " updating movie:\n" \o pretty(data)
       ELSE "Movie updated:\n" \o pretty(data)

update_movie(a, status, data) ==
  IF status = 0
  THEN "Transport error while PUT /movies/" \o ToString(a.movie_id) \o ":\n"
         \o pretty(data)
  ELSE IF status = 404 THEN "Movie " \o ToString(a.movie_id) \o " not found."
  ELSE IF status >= 400
       THEN "Error " \o ToString(status) \o " updating movie "
              \o ToString(a.movie_id) \o ":\n" \o pretty(data)
       ELSE "Movie updated:\n" \o pretty(data)

delete_movie_request(a) ==
  [base |-> MOVIE_API_BASE, method |-> "DELETE",
   path |-> "/movies/" \o ToString(a.movie_id), json_body |-> None]

delete_movie(a, status, data) ==
  IF status = 0
  THEN "Transport error while DELETE /movies/" \o ToString(a.movie_id) \o ":\n"
         \o pretty(data)
  ELSE IF status = 404 THEN "Movie " \o ToString(a.movie_id) \o " not found."
  ELSE IF status >= 400
       THEN "Error " \o ToString(status) \o " deleting movie "
              \o ToString(a.movie_id) \o ":\n" \o pretty(data)
       ELSE "Movie " \o ToString(a.movie_id) \o " deleted (status "
              \o ToString(status) \o ")."

-----------------------------------------------------------------------------
\* The task tools: the same adapter over the tasks collection (the tasks
\* file is the movies file with the resource renamed and the attributes
\* title, done).

TaskBody(a) == JObj(<< <<"title", JStr(a.title)>>, <<"done", JBool(a.done)>> >>)

get_tasks_request(a) ==
  [base |-> TASK_API_BASE, method |-> "GET", path |-> "/tasks", json_body |-> None]

get_tasks(a, status, data) ==
  IF status = 0 THEN "Transport error while calling /tasks:\n" \o pretty(data)
  ELSE IF status >= 400
       THEN "Error " \o ToString(status) \o " from /tasks:\n" \o pretty(data)
       ELSE pretty(data)

get_task_request(a) ==
  [base |-> TASK_API_BASE, method |-> "GET",
   path |-> "/tasks/" \o ToString(a.task_id), json_body |-> None]

get_task(a, status, data) ==
  IF status = 0
  THEN "Transport error while calling /tasks/" \o ToString(a.task_id) \o ":\n"
         \o pretty(data)
  ELSE IF status = 404 THEN "Task " \o ToString(a.task_id) \o " not found."
  ELSE IF status >= 400
       THEN "Error " \o ToString(status) \o " from /tasks/" \o ToString(a.task_id)
              \o ":\n" \o pretty(data)
       ELSE pretty(data)

create_task_request(a) ==
  [base |-> TASK_API_BASE, method |-> "POST", path |-> "/tasks",
   json_body |-> TaskBody(a)]

create_task(a, status, data) ==
  IF status = 0 THEN "Transport error while POST /tasks:\n" \o pretty(data)
  ELSE IF status >= 400
       THEN "Error " \o ToString(status) \o " creating task:\n" \o pretty(data)
       ELSE "Task created:\n" \o pretty(data)

update_task_request(a) ==
  [base |-> TASK_API_BASE, method |-> "PUT",
   path |-> "/tasks/" \o ToString(a.task_id), json_body |-> TaskBody(a)]

update_task(a, status, data) ==
  IF status = 0
  THEN "Transport error while PUT /tasks/" \o ToString(a.task_id) \o ":\n"
         \o pretty(data)
  ELSE IF status = 404 THEN "Task " \o ToString(a.task_id) \o " not found."
  ELSE IF status >= 400
       THEN "Error " \o ToString(status) \o " updating task "
              \o ToString(a.task_id) \o ":\n" \o pretty(data)
       ELSE "Task updated:\n" \o pretty(data)

delete_task_request(a) ==
  [base |-> TASK_API_BASE, method |-> "DELETE",
   path |-> "/tasks/" \o ToString(a.task_id), json_body |-> None]

delete_task(a, status, data) ==
  IF status = 0
  THEN "Transport error while DELETE /tasks/" \o ToString(a.task_id) \o ":\n"
         \o pretty(data)
  ELSE IF status = 404 THEN "Task " \o ToString(a.task_id) \o " not found."
  ELSE IF status >= 400
       THEN "Error " \o ToString(status) \o " deleting task "
              \o ToString(a.task_id) \o ":\n" \o pretty(data)
       ELSE "Task " \o ToString(a.task_id) \o " deleted (status "
              \o ToString(status) \o ")."

-----------------------------------------------------------------------------
\* The tool surface registered with the host (@mcp.tool()).

MovieTools == {"get_movies", "get_movie", "create_movie", "update_movie", "delete_movie"}

TaskTools == {"get_tasks", "get_task", "create_task", "update_task", "delete_task"}

Tools == MovieTools \cup TaskTools

\* The api_request call tool t makes for arguments a.
Request(t, a) ==
  CASE t = "get_movies"   -> get_movies_request(a)
    [] t = "get_movie"    -> get_movie_request(a)
    [] t = "create_movie" -> create_movie_request(a)
    [] t = "update_movie" -> update_movie_request(a)
    [] t = "delete_movie" -> delete_movie_request(a)
    [] t = "get_tasks"    -> get_tasks_request(a)
    [] t = "get_task"     -> get_task_request(a)
    [] t = "create_task"  -> create_task_request(a)
    [] t = "update_task"  -> update_task_request(a)
    [] t = "delete_task"  -> delete_task_request(a)

\* The text tool t returns once api_request has returned (status, data).
Render(t, a, status, data) ==
  CASE t = "get_movies"   -> get_movies(a, status, data)
    [] t = "get_movie"    -> get_movie(a, status, data)
    [] t = "create_movie" -> create_movie(a, status, data)
    [] t = "update_movie" -> update_movie(a, status, data)
    [] t = "delete_movie" -> delete_movie(a, status, data)
    [] t = "get_tasks"    -> get_tasks(a, status, data)
    [] t = "get_task"     -> get_task(a, status, data)
    [] t = "create_task"  -> create_task(a, status, data)
    [] t = "update_task"  -> update_task(a, status, data)
    [] t = "delete_task"  -> delete_task(a, status, data)

-----------------------------------------------------------------------------
\* Inputs: what the host may pass and what the network may do.

Ids == {3, 7, 42}

MovieAttrs ==
  {[title |-> "Dune", year |-> 2021, rating |-> 80],
   [title |-> "The \"Thing\"", year |-> 1982, rating |-> 82]}

TaskAttrs == {[title |-> "Write", done |-> FALSE], [title |-> "Ship", done |-> TRUE]}

NoArgs == [none |-> TRUE]

\* tool[c] of a call slot that holds no call.
NoTool == ""

ToolArgs(t) ==
  CASE t \in {"get_movies", "get_tasks"}  -> {NoArgs}
    [] t \in {"get_movie", "delete_movie"} -> {[movie_id |-> i] : i \in Ids}
    [] t = "create_movie" -> MovieAttrs
    [] t = "update_movie" ->
         {[movie_id |-> i, title |-> m.title, year |-> m.year, rating |-> m.rating] :
            i \in Ids, m \in MovieAttrs}
    [] t \in {"get_task", "delete_task"} -> {[task_id |-> i] : i \in Ids}
    [] t = "create_task" -> TaskAttrs
    [] t = "update_task" ->
         {[task_id |-> i, title |-> m.title, done |-> m.done] : i \in Ids, m \in TaskAttrs}

\* HTTP status codes a response can carry (h11 accepts 100..999 only).
Statuses == {101, 200, 201, 204, 302, 400, 404, 422, 500}

\* Response bodies: empty, text that is not JSON, and JSON texts.
Contents == {"", "Internal Server Error"} \cup {compact(v) : v \in JsonUniverse}

\* str(e) of the exceptions the transport raises: connection refused, DNS
\* failure, read timeout (whose message is empty).
Errors == {"All connection attempts failed", "[Errno -2] Name or service not known", ""}

Environments ==
  {[MOVIE_API_BASE |-> None, TASK_API_BASE |-> None],
   [MOVIE_API_BASE |-> JStr("http://localhost:8000"),
    TASK_API_BASE |-> JStr("http://localhost:8000")]}

-----------------------------------------------------------------------------
\* The calls

Ended == {"done", "raised", "cancelled"}

Init ==
  /\ environ \in Environments
  /\ pc = [c \in Calls |-> "idle"]
  /\ tool = [c \in Calls |-> NoTool]
  /\ args = [c \in Calls |-> None]
  /\ client = [c \in Calls |-> 0]
  /\ sent = [c \in Calls |-> <<>>]
  /\ resp = [c \in Calls |-> None]
  /\ ret = [c \in Calls |-> None]
  /\ result = [c \in Calls |-> None]
  /\ open = {}

\* One module-level client used by every call.
SharedClient == CHOOSE i \in Calls : \A j \in Calls : i <= j

\* httpx.AsyncClient(): a new object, distinct from every client still
\* open or still referenced.
NewClient ==
  LET used == open \cup {client[c] : c \in Calls}
  IN  CHOOSE i \in 1..(MaxCalls + 1) : i \notin used /\ \A j \in 1..(i - 1) : j \in used

\* What client.request(...) puts on the wire for the api_request call r.
WireRequest(r, cl) ==
  [method  |-> Upper(r.method),
   url     |-> r.base \o r.path,
   json    |-> r.json_body,
   headers |-> JSON_HEADERS,
   timeout |-> DefaultTimeout,
   client  |-> cl]

Returning(pair) == [kind |-> "return", status |-> pair.status, data |-> pair.data]

\* The host invokes tool t with arguments a; the tool builds its request and
\* calls api_request, which is about to enter `async with`.
Invoke(c, t, a) ==
  /\ pc[c] = "idle"
  /\ pc' = [pc EXCEPT ![c] = "called"]
  /\ tool' = [tool EXCEPT ![c] = t]
  /\ args' = [args EXCEPT ![c] = a]
  /\ UNCHANGED <<environ, client, sent, resp, ret, result, open>>

\* `async with httpx.AsyncClient() as client` succeeds.
ClientEnter(c) ==
  /\ pc[c] = "called"
  /\ client' = [client EXCEPT ![c] = NewClient]
  /\ open' = open \cup {NewClient}
  /\ pc' = [pc EXCEPT ![c] = "entered"]
  /\ UNCHANGED <<environ, tool, args, sent, resp, ret, result>>

\* The constructor or __aenter__ raises: line 32 is outside the try block,
\* so the exception leaves api_request and the tool.
ClientEnterFail(c) ==
  /\ pc[c] = "called"
  /\ pc' = [pc EXCEPT ![c] = "raised"]
  /\ UNCHANGED <<environ, tool, args, client, sent, resp, ret, result, open>>

\* `await client.request(...)`: the request goes out and the call suspends.
\* A client that is already closed raises inside the try block instead.
Send(c) ==
  /\ pc[c] = "entered"
  /\ LET r == Request(tool[c], args[c])
     IN  IF client[c] \in open
         THEN /\ sent' = [sent EXCEPT ![c] = Append(@, WireRequest(r, client[c]))]
              /\ pc' = [pc EXCEPT ![c] = "awaiting"]
              /\ UNCHANGED <<resp, ret>>
         ELSE /\ resp' = [resp EXCEPT ![c] = [kind |-> "closed"]]
              /\ ret' = [ret EXCEPT ![c] =
                   Returning(TransportFailure(
                     "Cannot send a request, as the client has been closed.",
                     r.base \o r.path, r.method, r.json_body))]
              /\ pc' = [pc EXCEPT ![c] = "exiting"]
              /\ UNCHANGED sent
  /\ UNCHANGED <<environ, tool, args, client, result, open>>

\* The backend answers; lines 42-49 pick the pair to return.
Respond(c, status_code, content) ==
  /\ pc[c] = "awaiting"
  /\ resp' = [resp EXCEPT ![c] =
       [kind |-> "response", status_code |-> status_code, content |-> content]]
  /\ ret' = [ret EXCEPT ![c] = Returning(Classify(status_code, content))]
  /\ pc' = [pc EXCEPT ![c] = "exiting"]
  /\ UNCHANGED <<environ, tool, args, client, sent, result, open>>

\* A transport failure answered by trying the request again.
TransportErrorRetry(c, e) ==
  /\ pc[c] = "awaiting"
  /\ pc' = [pc EXCEPT ![c] = "entered"]
  /\ UNCHANGED <<environ, tool, args, client, sent, resp, ret, result, open>>

\* The transport raises (connection, DNS, timeout); lines 50-52.
TransportError(c, e) ==
  /\ pc[c] = "awaiting"
  /\ resp' = [resp EXCEPT ![c] = [kind |-> "error", e |-> e]]
  /\ LET r == Request(tool[c], args[c])
     IN  ret' = [ret EXCEPT ![c] =
           Returning(TransportFailure(e, r.base \o r.path, r.method, r.json_body))]
  /\ pc' = [pc EXCEPT ![c] = "exiting"]
  /\ UNCHANGED <<environ, tool, args, client, sent, result, open>>

\* The host cancels the suspended call: CancelledError is not an Exception,
\* so line 50 does not catch it and it unwinds through `async with`.
Cancel(c) ==
  /\ pc[c] = "awaiting"
  /\ resp' = [resp EXCEPT ![c] = [kind |-> "cancel"]]
  /\ ret' = [ret EXCEPT ![c] = [kind |-> "raise"]]
  /\ pc' = [pc EXCEPT ![c] = "exiting"]
  /\ UNCHANGED <<environ, tool, args, client, sent, result, open>>

\* `async with` exits and closes the client; api_request returns its pair and
\* the tool renders it (no await in between), or the cancellation goes on.
ClientExit(c) ==
  /\ pc[c] = "exiting"
  /\ open' = open \ {client[c]}
  /\ IF ret[c].kind = "return"
     THEN /\ result' = [result EXCEPT ![c] =
                 JStr(Render(tool[c], args[c], ret[c].status, ret[c].data))]
          /\ pc' = [pc EXCEPT ![c] = "done"]
     ELSE /\ pc' = [pc EXCEPT ![c] = "cancelled"]
          /\ UNCHANGED result
  /\ UNCHANGED <<environ, tool, args, client, sent, resp, ret>>

\* __aexit__ raises while closing (httpx marks the client closed before it
\* tears the transport down): the exception replaces the pending return.
ClientExitFail(c) ==
  /\ pc[c] = "exiting"
  /\ open' = open \ {client[c]}
  /\ pc' = [pc EXCEPT ![c] = "raised"]
  /\ UNCHANGED <<environ, tool, args, client, sent, resp, ret, result>>

\* The host has taken the call's outcome; the slot is free for a later call.
Forget(c) ==
  /\ pc[c] \in Ended
  /\ pc' = [pc EXCEPT ![c] = "idle"]
  /\ tool' = [tool EXCEPT ![c] = NoTool]
  /\ args' = [args EXCEPT ![c] = None]
  /\ client' = [client EXCEPT ![c] = 0]
  /\ sent' = [sent EXCEPT ![c] = <<>>]
  /\ resp' = [resp EXCEPT ![c] = None]
  /\ ret' = [ret EXCEPT ![c] = None]
  /\ result' = [result EXCEPT ![c] = None]
  /\ UNCHANGED <<environ, open>>

\* The host delivers one call at a time.
Sequential(c) == \A d \in Calls \ {c} : pc[d] = "idle"

Next ==
  \E c \in Calls :
    \/ \E t \in Tools : \E a \in ToolArgs(t) : Sequential(c) /\ Invoke(c, t, a)
    \/ ClientEnter(c)
    \/ ClientEnterFail(c)
    \/ Send(c)
    \/ \E s \in Statuses : \E b \in Contents : Respond(c, s, b)
    \/ \E e \in Errors : TransportError(c, e)
    \/ Cancel(c)
    \/ ClientExit(c)
    \/ ClientExitFail(c)
    \/ Forget(c)

Spec == Init /\ [][Next]_vars

\* Concurrent dispatch: any interleaving of the calls' steps, over a smaller
\* set of tools and network outcomes.
ConcInvocations ==
  {<<"get_movie", [movie_id |-> 7]>>, <<"delete_movie", [movie_id |-> 42]>>}

ConcResponses ==
  {<<200, compact(Movie3)>>, <<404, "">>, <<500, "Internal Server Error">>}

NextConc ==
  \E c \in Calls :
    \/ \E i \in ConcInvocations : Invoke(c, i[1], i[2])
    \/ ClientEnter(c)
    \/ ClientEnterFail(c)
    \/ Send(c)
    \/ \E r \in ConcResponses : Respond(c, r[1], r[2])
    \/ TransportError(c, "")
    \/ Cancel(c)
    \/ ClientExit(c)
    \/ ClientExitFail(c)
    \/ Forget(c)

\* The same start, with the environment left unset.
InitConc == Init /\ environ.MOVIE_API_BASE = None

SpecConc == InitConc /\ [][NextConc]_vars

-----------------------------------------------------------------------------
\* Properties

\* What the call has from the network, once something came back.
Answered(c) == resp[c] # None /\ resp[c].kind = "response"

Failed(c) == resp[c] # None /\ resp[c].kind = "error"

\* api_request has a pair to return.
HasPair(c) == ret[c] # None /\ ret[c].kind = "return"

IdTools == {"get_movie", "update_movie", "delete_movie"}

\* C1: api_request never raises and every movie tool call ends by returning
\* a string, whatever happens in the HTTP exchange (client set-up failure
\* and failure while closing the client included): no call ends with an
\* exception reaching the host.
C1_NeverRaises ==
  \A c \in Calls :
    (tool[c] \in MovieTools /\ pc[c] \in Ended \ {"cancelled"})
      => (pc[c] = "done" /\ result[c] # None)

\* C2: a transport exception gives status 0 and a body with exactly the keys
\* error, url, method, body (the attempted request body); every tool renders
\* it with "Transport error"; status 0 never comes from a backend answer.
C2_TransportFailure ==
  \A c \in Calls :
    /\ Failed(c) =>
         /\ HasPair(c)
         /\ ret[c].status = 0
         /\ IsDict(ret[c].data)
         /\ Keys(ret[c].data) = {"error", "url", "method", "body"}
         /\ Get(ret[c].data, "error") = JStr(resp[c].e)
         /\ Get(ret[c].data, "url") = JStr(sent[c][1].url)
         /\ Get(ret[c].data, "method") = JStr(sent[c][1].method)
         /\ Get(ret[c].data, "body") = sent[c][1].json
         /\ pc[c] = "done" => Contains(result[c].s, "Transport error")
    /\ (HasPair(c) /\ ret[c].status = 0) => ~Answered(c)
    /\ Answered(c) => (HasPair(c) /\ ret[c].status # 0)

C2_Witness ==
  \E c \in Calls :
    /\ pc[c] = "done" /\ tool[c] = "create_movie"
    /\ Failed(c) /\ resp[c].e = ""
    /\ StartsWith(result[c].s, "Transport error while POST /movies:\n{\n  \"error\": \"\",\n  \"url\": ")

JsonTexts == {compact(v) : v \in JsonUniverse}

\* C3: when the backend answers, the real status code is returned; 204 or an
\* empty body gives None (even a 204 with bytes); a non-empty body that is
\* not JSON gives None; otherwise the body is the parsed JSON value.
C3_Classification ==
  \A c \in Calls :
    Answered(c) =>
      LET s == resp[c].status_code
          b == resp[c].content
      IN  /\ HasPair(c)
          /\ ret[c].status = s
          /\ (s = 204 \/ b = "") => ret[c].data = None
          /\ (s # 204 /\ b # "" /\ b \notin JsonTexts) => ret[c].data = None
          /\ (s # 204 /\ b # "" /\ b \in JsonTexts) =>
               (ret[c].data \in JsonUniverse /\ compact(ret[c].data) = b)
          /\ (s # 204 /\ b = compact(Movie3)) => ret[c].data = Movie3

C3_Witness ==
  \E c \in Calls :
    /\ Answered(c) /\ pc[c] = "done"
    /\ resp[c].status_code = 200 /\ resp[c].content = "Internal Server Error"
    /\ ret[c].data = None

\* C4: for get, update and delete, a 404 is rendered as exactly
\* "Movie <id> not found." whatever the body; for list and create a 404
\* takes the generic error rendering.
C4_NotFound ==
  \A c \in Calls :
    (pc[c] = "done" /\ Answered(c) /\ resp[c].status_code = 404) =>
      /\ tool[c] \in IdTools =>
           result[c].s = "Movie " \o ToString(args[c].movie_id) \o " not found."
      /\ (tool[c] = "get_movie" /\ args[c].movie_id = 42) =>
           result[c].s = "Movie 42 not found."
      /\ tool[c] \in {"get_movies", "create_movie"} =>
           StartsWith(result[c].s, "Error 404 ")

C4_Witness ==
  \E c \in Calls :
    /\ pc[c] = "done" /\ tool[c] = "get_movie" /\ args[c].movie_id = 42
    /\ Answered(c) /\ resp[c].status_code = 404 /\ resp[c].content = compact(Detail)
    /\ result[c].s = "Movie 42 not found."

\* The generic error rule applies: status >= 400 and not a 404 of an
\* id-addressed tool.
GenericError(c) ==
  /\ pc[c] = "done" /\ Answered(c) /\ tool[c] \in MovieTools
  /\ ret[c].status >= 400
  /\ ~(ret[c].status = 404 /\ tool[c] \in IdTools)

Gerunds ==
  {"listing", "getting", "fetching", "reading", "retrieving",
   "creating", "updating", "deleting"}

\* C5 as stated: for every tool and every status >= 400 outside the 404
\* rule the text is "Error {status} <verb-ing> <resource>[ {id}]:", a
\* newline, and the pretty-printed body, the id being present exactly for
\* the id-addressed tools.
C5_VerbForm ==
  \A c \in Calls :
    GenericError(c) =>
      \E v \in Gerunds : \E n \in {"movie", "movies"} :
        result[c].s =
          "Error " \o ToString(ret[c].status) \o " " \o v \o " " \o n
            \o (IF tool[c] \in IdTools THEN " " \o ToString(args[c].movie_id) ELSE "")
            \o ":\n" \o pretty(ret[c].data)

\* C5 amended: create, update and delete name the operation ("creating
\* movie", "updating movie {id}", "deleting movie {id}"); list and get name
\* the request path instead ("from /movies", "from /movies/{id}").
C5_ErrorRendering ==
  \A c \in Calls :
    GenericError(c) =>
      LET st   == ToString(ret[c].status)
          body == pretty(ret[c].data)
      IN  /\ tool[c] = "get_movies" =>
               result[c].s = "Error " \o st \o " from /movies:\n" \o body
          /\ tool[c] = "get_movie" =>
               result[c].s = "Error " \o st \o " from /movies/"
                               \o ToString(args[c].movie_id) \o ":\n" \o body
          /\ tool[c] = "create_movie" =>
               result[c].s = "Error " \o st \o " creating movie:\n" \o body
          /\ tool[c] = "update_movie" =>
               result[c].s = "Error " \o st \o " updating movie "
                               \o ToString(args[c].movie_id) \o ":\n" \o body
          /\ tool[c] = "delete_movie" =>
               result[c].s = "Error " \o st \o " deleting movie "
                               \o ToString(args[c].movie_id) \o ":\n" \o body
          /\ (tool[c] = "update_movie" /\ args[c].movie_id = 3 /\ ret[c].status = 500) =>
               StartsWith(result[c].s, "Error 500 updating movie 3:\n")

C5_Witness ==
  \E c \in Calls :
    /\ GenericError(c) /\ tool[c] = "update_movie" /\ args[c].movie_id = 3
    /\ resp[c].status_code = 500 /\ resp[c].content = compact(Detail)
    /\ result[c].s = "Error 500 updating movie 3:\n{\n  \"detail\": \"invalid year\"\n}"

\* C6: for every non-zero status below 400 (1xx and 3xx included), list and
\* get return the pretty-printed body alone, create and update prefix it
\* with "Movie created:" / "Movie updated:" and a newline, and delete
\* returns "Movie {id} deleted (status {status})." without the body.
C6_SuccessRendering ==
  \A c \in Calls :
    (pc[c] = "done" /\ Answered(c) /\ tool[c] \in MovieTools
       /\ ret[c].status # 0 /\ ret[c].status < 400) =>
      LET body == pretty(ret[c].data)
      IN  /\ tool[c] \in {"get_movies", "get_movie"} => result[c].s = body
          /\ tool[c] = "create_movie" => result[c].s = "Movie created:\n" \o body
          /\ tool[c] = "update_movie" => result[c].s = "Movie updated:\n" \o body
          /\ tool[c] = "delete_movie" =>
               result[c].s = "Movie " \o ToString(args[c].movie_id)
                               \o " deleted (status " \o ToString(ret[c].status) \o ")."
          /\ (tool[c] = "delete_movie" /\ args[c].movie_id = 7 /\ ret[c].status = 204) =>
               result[c].s = "Movie 7 deleted (status 204)."
          /\ (tool[c] = "create_movie" /\ ret[c].status = 201
                /\ resp[c].content = compact(Movie3)) =>
               result[c].s = "Movie created:\n{\n  \"id\": 3,\n  \"title\": \"Dune\",\n  \"year\": 2021,\n  \"rating\": 8.0\n}"

C6_Witness ==
  \E c \in Calls :
    /\ pc[c] = "done" /\ tool[c] = "get_movie" /\ Answered(c)
    /\ resp[c].status_code = 302 /\ resp[c].content = compact(Movie3)
    /\ result[c].s = "{\n  \"id\": 3,\n  \"title\": \"Dune\",\n  \"year\": 2021,\n  \"rating\": 8.0\n}"

Bases == {DefaultBase, "http://localhost:8000"}

\* The id argument of an id-addressed call, as it appears in the path.
IdText(c) ==
  IF tool[c] \in MovieTools THEN ToString(args[c].movie_id) ELSE ToString(args[c].task_id)

\* C7: ten tools, the same five operations over movies and over tasks, and
\* each issues the request of the dispatch table: list = GET /{resource},
\* get = GET /{resource}/{id}, create = POST /{resource},
\* update = PUT /{resource}/{id}, delete = DELETE /{resource}/{id}.
C7_DispatchTable ==
  /\ Tools = {"get_movies", "get_movie", "create_movie", "update_movie", "delete_movie",
              "get_tasks", "get_task", "create_task", "update_task", "delete_task"}
  /\ \A c \in Calls :
       Len(sent[c]) >= 1 =>
         LET w == sent[c][1]
             t == tool[c]
             r == IF t \in MovieTools THEN "/movies" ELSE "/tasks"
         IN  /\ t \in Tools
             /\ t \in {"get_movies", "get_tasks"} =>
                  (w.method = "GET" /\ \E b \in Bases : w.url = b \o r)
             /\ t \in {"get_movie", "get_task"} =>
                  (w.method = "GET" /\ \E b \in Bases : w.url = b \o r \o "/" \o IdText(c))
             /\ t \in {"create_movie", "create_task"} =>
                  (w.method = "POST" /\ \E b \in Bases : w.url = b \o r)
             /\ t \in {"update_movie", "update_task"} =>
                  (w.method = "PUT" /\ \E b \in Bases : w.url = b \o r \o "/" \o IdText(c))
             /\ t \in {"delete_movie", "delete_task"} =>
                  (w.method = "DELETE" /\ \E b \in Bases : w.url = b \o r \o "/" \o IdText(c))

C7_Witness ==
  \E c \in Calls :
    /\ tool[c] = "update_movie" /\ args[c].movie_id = 42 /\ pc[c] = "awaiting"
    /\ sent[c][1].method = "PUT"
    /\ sent[c][1].url = "https://basicrud95019501.onrender.com/movies/42"

\* C8: a tool invocation issues exactly one network request: never a second
\* one (no retry after a transport failure, a timeout, an error status or
\* an unparsable body), and no tool returns without having issued its one.
C8_ExactlyOneRequest ==
  \A c \in Calls :
    /\ Len(sent[c]) <= 1
    /\ pc[c] \in {"awaiting", "done", "cancelled"} => Len(sent[c]) = 1
    /\ (Answered(c) \/ Failed(c)) => Len(sent[c]) = 1

C8_Witness ==
  \E c \in Calls :
    /\ pc[c] = "done" /\ tool[c] = "update_movie"
    /\ Failed(c) /\ resp[c].e = "All connection attempts failed"
    /\ Len(sent[c]) = 1

\* C9: the JSON body sent by create_movie and update_movie has exactly the
\* keys title, year, rating with the call's argument values (the id of
\* update is in the path only); list, get and delete send no body.
C9_RequestBody ==
  \A c \in Calls :
    (Len(sent[c]) >= 1 /\ tool[c] \in MovieTools) =>
      LET w == sent[c][1]
      IN  /\ tool[c] \in {"create_movie", "update_movie"} =>
               /\ IsDict(w.json)
               /\ Len(w.json.kv) = 3
               /\ Keys(w.json) = {"title", "year", "rating"}
               /\ Get(w.json, "title") = JStr(args[c].title)
               /\ Get(w.json, "year") = JInt(args[c].year)
               /\ Get(w.json, "rating") = JFloat(args[c].rating)
          /\ tool[c] = "update_movie" =>
               \E b \in Bases : w.url = b \o "/movies/" \o ToString(args[c].movie_id)
          /\ tool[c] \in {"get_movies", "get_movie", "delete_movie"} => w.json = None

C9_Witness ==
  \E c \in Calls :
    /\ tool[c] = "update_movie" /\ args[c].movie_id = 7 /\ args[c].title = "The \"Thing\""
    /\ pc[c] = "awaiting"
    /\ compact(sent[c][1].json) = "{\"title\":\"The \\\"Thing\\\"\",\"year\":1982,\"rating\":8.2}"

Active == {"entered", "awaiting", "exiting"}

\* The pair api_request owes call c, from the call's own request and its own
\* network outcome alone.
OwnPair(c) ==
  LET r == Request(tool[c], args[c])
  IN  IF Answered(c)
      THEN Classify(resp[c].status_code, resp[c].content)
      ELSE TransportFailure(resp[c].e, r.base \o r.path, r.method, r.json_body)

\* C10: under any interleaving, each call has a client of its own, open
\* while the call runs and closed once the call has ended (returned, raised
\* or cancelled); no open client outlives its call; and the text a call
\* returns is determined by its own arguments and its own network outcome.
C10_Isolation ==
  /\ \A c \in Calls :
       /\ pc[c] \in Active => (client[c] # 0 /\ client[c] \in open)
       /\ pc[c] \in Ended => client[c] \notin open
       /\ pc[c] = "done" =>
            /\ Answered(c) \/ Failed(c)
            /\ result[c] = JStr(Render(tool[c], args[c], OwnPair(c).status, OwnPair(c).data))
       /\ \A d \in Calls \ {c} :
            (pc[c] \in Active /\ pc[d] \in Active) => client[c] # client[d]
  /\ open \subseteq {client[c] : c \in {d \in Calls : pc[d] \in Active}}

C10_Witness ==
  \E c \in Calls : \E d \in Calls \ {c} :
    /\ pc[c] = "cancelled" /\ client[c] # 0
    /\ pc[d] = "awaiting" /\ client[d] # client[c]
    /\ open = {client[d]}
====
